---- MODULE Spec2Model ----
(***************************************************************************)
(* NetworkLogWriter: the connection actor of folly's network log writer.   *)
(*                                                                         *)
(* Threads: one caller thread (writeMessage / flush), the owner thread     *)
(* that destroys the writer (cleanup), and the event loop thread, which    *)
(* runs the functions posted with runInEventBaseThread, the socket         *)
(* callbacks and the reconnect timeout.  Every handler of the writer holds *)
(* the Synchronized<ConnectionState> lock from its first statement to its  *)
(* return, so a handler is one atomic step; a handler that calls, with the *)
(* lock held, a method that locks again never returns: the loop thread     *)
(* stays blocked with the lock held.                                       *)
(***************************************************************************)
EXTENDS Integers, Sequences, FiniteSets, TLC

\* ------------------------------------------------------------- bounds
MaxCalls == 3        \* writeMessage calls made by the caller thread
MaxFlush == 1        \* flush calls made by the caller thread
MaxFaults == 2       \* failures injected by the transport
AttemptsMod == 3     \* the connect-attempt counter is kept modulo this
MaxRequests == 1     \* further connect() requests made on the loop thread

MessageSizes == {3, 6, 8}          \* buffer.size() of the messages written
NeverDiscardSizes == {8}           \* sizes also written with the NEVER_DISCARD flag
BufferSizes == {10}                \* maxBufferSize given to the constructor
Protocols == {"TCP", "UDP"}

VARIABLES
  \* ConnectionState
  socket,            \* "null", or the state of the AsyncSocket it points to
  pendingMessages,   \* sequence of messages: [id, size, neverDiscard]
  pendingBytes,
  connecting,
  closed,
  \* configuration
  maxBufferSize_,
  protocol_,
  \* event loop, timer, lock
  loopQueue,         \* functions posted with runInEventBaseThread, FIFO
  loop,              \* "running", "blocked" (waiting for the lock it holds), "exited"
  lockHolder,        \* "none" or "loop"
  timerScheduled,    \* reconnectTimeout_->isScheduled()
  inflight,          \* writes handed to the socket and not yet completed
  \* threads
  callerPc, nFlush, cleanupPc,
  \* history
  nCalls,            \* writeMessage calls that returned
  nAccepted,         \* messages enqueued so far; the k-th gets id k
  written,           \* ids of the writes the transport completed, in order
  attempts,          \* connect attempts that passed connect()'s guard, mod AttemptsMod
  nConnErr, nWriteFault,
  failed,            \* id of the queued message whose write failed last and has
                     \* not succeeded since, or 0
  nRequests,         \* further connect() requests made (RequestSpec only)
  reArm,             \* what scheduleReconnect() did when the timeout was already
                     \* scheduled: "never" called so, "ignored", or "reset" the deadline
  netCallLock        \* holder of connectionState_'s lock when a socket connect
                     \* or write was issued: "none" or "loop"

vars == <<socket, pendingMessages, pendingBytes, connecting, closed,
          maxBufferSize_, protocol_, loopQueue, loop, lockHolder,
          timerScheduled, inflight, callerPc, nFlush, cleanupPc,
          nCalls, nAccepted, written, attempts, nConnErr, nWriteFault,
          failed, nRequests, reArm, netCallLock>>

stateVars == <<socket, pendingMessages, pendingBytes, connecting, closed>>
configVars == <<maxBufferSize_, protocol_>>
callerVars == <<callerPc, nFlush>>
histVars == <<nCalls, nAccepted, written, attempts, nConnErr, nWriteFault,
              failed>>

\* ------------------------------------------------------------- helpers
\* AsyncSocket::good(): the socket is connected and has not failed
good(s) == s = "good"

Last(q) == q[Len(q)]

nFaults == nConnErr + nWriteFault

Init ==
  /\ socket = "null"
  /\ pendingMessages = <<>>
  /\ pendingBytes = 0
  /\ connecting = FALSE
  /\ closed = FALSE
  /\ maxBufferSize_ \in BufferSizes
  /\ protocol_ \in Protocols
  /\ loopQueue = <<"connect">>
  /\ loop = "running"
  /\ lockHolder = "none"
  /\ timerScheduled = FALSE
  /\ inflight = <<>>
  /\ callerPc = "idle"
  /\ nFlush = 0
  /\ cleanupPc = "none"
  /\ nCalls = 0
  /\ nAccepted = 0
  /\ written = <<>>
  /\ attempts = 0
  /\ nConnErr = 0
  /\ nWriteFault = 0
  /\ failed = 0
  /\ nRequests = 0
  /\ reArm = "never"
  /\ netCallLock = "none"

\* ------------------------------------------------------------- caller thread
\* The caller enters writeMessage(buffer, flags); it next needs the lock.
writeMessageCall ==
  /\ callerPc = "idle"
  /\ cleanupPc = "none"
  /\ nCalls < MaxCalls
  /\ callerPc' = "writeMessage"
  /\ UNCHANGED <<stateVars, configVars, loopQueue, loop, lockHolder,
                 timerScheduled, inflight, nFlush, cleanupPc, histVars,
                 nRequests, reArm, netCallLock>>

\* discard check that never drops (the early return is missing)
discard_Never(bytes, sz, nd) == FALSE

\* discard check that forgets the size of the new buffer
discard_NoSize(bytes, sz, nd) == bytes > maxBufferSize_ /\ ~nd

\* discard check that does not look at the never-discard flag
discard_IgnoreFlag(bytes, sz, nd) == bytes + sz > maxBufferSize_

\* The discard check of writeMessage
discard(bytes, sz, nd) == bytes + sz > maxBufferSize_ /\ ~nd

\* writeMessage(buffer, flags) from the lock to the return
writeMessageBody(sz, nd) ==
  /\ nCalls' = nCalls + 1
  /\ IF discard(pendingBytes, sz, nd)
     THEN UNCHANGED <<pendingMessages, pendingBytes, loopQueue, nAccepted>>
     ELSE /\ nAccepted' = nAccepted + 1
          /\ pendingMessages' = Append(pendingMessages,
                 [id |-> nAccepted + 1, size |-> sz, neverDiscard |-> nd])
          /\ pendingBytes' = pendingBytes + Last(pendingMessages').size
          /\ loopQueue' = IF socket # "null" /\ good(socket)
                          THEN Append(loopQueue, "sendPendingMessages")
                          ELSE loopQueue

writeMessage ==
  /\ callerPc = "writeMessage"
  /\ lockHolder = "none"
  /\ \/ \E sz \in MessageSizes : writeMessageBody(sz, FALSE)
     \/ \E sz \in NeverDiscardSizes : writeMessageBody(sz, TRUE)
  /\ callerPc' = "idle"
  /\ UNCHANGED <<socket, connecting, closed, configVars, loop, lockHolder,
                 timerScheduled, inflight, nFlush, cleanupPc,
                 written, attempts, nConnErr, nWriteFault, failed,
                 nRequests, reArm, netCallLock>>

flush ==
  /\ callerPc = "idle"
  /\ cleanupPc = "none"
  /\ nFlush < MaxFlush
  /\ nFlush' = nFlush + 1
  /\ loopQueue' = Append(loopQueue, "sendPendingMessages")
  /\ UNCHANGED <<stateVars, configVars, loop, lockHolder, timerScheduled,
                 inflight, callerPc, cleanupPc, histVars,
                 nRequests, reArm, netCallLock>>

\* ------------------------------------------------------------- loop thread
\* A method that locks connectionState_ is called by a handler that already
\* holds the lock: the loop thread blocks for ever, with the lock held.
lockAgain == loop' = "blocked" /\ lockHolder' = "loop"

\* scheduleReconnect() that does not schedule the timeout
scheduleReconnect_Never(sched) == timerScheduled' = sched /\ UNCHANGED reArm

\* scheduleReconnect() without the isScheduled() test: scheduleTimeout() on a
\* scheduled timeout sets its deadline anew
scheduleReconnect_Always(sched) ==
  /\ timerScheduled' = TRUE
  /\ reArm' = (IF sched THEN "reset" ELSE reArm)

\* scheduleReconnect(), sched being reconnectTimeout_->isScheduled() on entry
scheduleReconnect(sched) ==
  /\ timerScheduled' = (IF ~sched THEN TRUE ELSE sched)
  /\ reArm' = (IF ~sched THEN reArm ELSE "ignored")

\* sendPendingMessages() that does not look at the socket
sendPendingMessages_NoCheck ==
  IF pendingMessages = <<>>
  THEN UNCHANGED <<inflight, netCallLock>>
  ELSE /\ inflight' = Append(inflight, Head(pendingMessages).id)
       /\ netCallLock' = "loop"         \* write() inside the scope of lock()

\* sendPendingMessages() run as a loop callback (the lock is free)
sendPendingMessages ==
  IF pendingMessages = <<>> \/ socket = "null" \/ ~good(socket)
  THEN UNCHANGED <<inflight, netCallLock>>
  ELSE /\ inflight' = Append(inflight, Head(pendingMessages).id)
       /\ netCallLock' = "loop"         \* write() inside the scope of lock()

\* connect() that makes a socket whatever the protocol is
connect_AnyProtocol(sched) ==
  IF connecting \/ (socket # "null" /\ good(socket))
  THEN /\ timerScheduled' = sched
       /\ UNCHANGED <<socket, connecting, inflight, attempts, reArm, netCallLock>>
  ELSE /\ attempts' = (attempts + 1) % AttemptsMod
       /\ connecting' = TRUE
       /\ socket' = "connecting"
       /\ inflight' = <<>>
       /\ timerScheduled' = sched
       /\ UNCHANGED reArm
       /\ netCallLock' = "loop"   \* socket->connect() inside the scope of lock()

\* connect() without the test that returns when a connect is under way or the
\* socket is good
connect_NoGuard(sched) ==
  /\ attempts' = (attempts + 1) % AttemptsMod
  /\ IF protocol_ = "TCP"
     THEN /\ connecting' = TRUE
          /\ socket' = "connecting"
          /\ inflight' = <<>>
          /\ timerScheduled' = sched
          /\ UNCHANGED reArm
          /\ netCallLock' = "loop"   \* socket->connect() inside the scope of lock()
     ELSE /\ connecting' = FALSE
          /\ scheduleReconnect(sched)
          /\ UNCHANGED <<socket, inflight, netCallLock>>

\* connect(), sched being reconnectTimeout_->isScheduled() on entry
connect(sched) ==
  IF connecting \/ (socket # "null" /\ good(socket))
  THEN /\ timerScheduled' = sched
       /\ UNCHANGED <<socket, connecting, inflight, attempts, reArm, netCallLock>>
  ELSE /\ attempts' = (attempts + 1) % AttemptsMod
       /\ IF protocol_ = "TCP"
          THEN /\ connecting' = TRUE
               /\ socket' = "connecting"
               /\ inflight' = <<>>
               /\ timerScheduled' = sched
               /\ UNCHANGED reArm
               /\ netCallLock' = "loop"   \* socket->connect() inside the scope of lock()
          ELSE \* UDP: the constructor of the socket is replaced by a throw
               /\ connecting' = FALSE
               /\ scheduleReconnect(sched)
               /\ UNCHANGED <<socket, inflight, netCallLock>>

\* the constructor's callback: [this] { connect(); }
RunConnect ==
  /\ loop = "running"
  /\ loopQueue # <<>> /\ Head(loopQueue) = "connect"
  /\ loopQueue' = Tail(loopQueue)
  /\ connect(timerScheduled)
  /\ UNCHANGED <<pendingMessages, pendingBytes, closed, configVars, loop,
                 lockHolder, callerVars, cleanupPc, nCalls, nAccepted, written,
                 nConnErr, nWriteFault, failed,
                 nRequests>>

\* the callback of writeMessage and flush: [this] { sendPendingMessages(); }
RunSendPendingMessages ==
  /\ loop = "running"
  /\ loopQueue # <<>> /\ Head(loopQueue) = "sendPendingMessages"
  /\ loopQueue' = Tail(loopQueue)
  /\ sendPendingMessages
  /\ UNCHANGED <<stateVars, configVars, loop, lockHolder, timerScheduled,
                 callerVars, cleanupPc, histVars,
                 nRequests, reArm>>

\* ReconnectTimeout::timeoutExpired(): the timeout is no longer scheduled
\* when its callback runs
timeoutExpired ==
  /\ loop = "running"
  /\ timerScheduled
  /\ connect(FALSE)
  /\ UNCHANGED <<pendingMessages, pendingBytes, closed, configVars, loopQueue,
                 loop, lockHolder, callerVars, cleanupPc, nCalls, nAccepted, written,
                 nConnErr, nWriteFault, failed,
                 nRequests>>

\* onConnectSuccess() that leaves connecting set
onConnectSuccess_KeepConnecting ==
  /\ loop = "running"
  /\ socket = "connecting"
  /\ socket' = "good"
  /\ IF pendingMessages # <<>>
     THEN lockAgain
     ELSE UNCHANGED <<loop, lockHolder>>
  /\ UNCHANGED <<pendingMessages, pendingBytes, connecting, closed, configVars,
                 loopQueue, timerScheduled, inflight, callerVars, cleanupPc,
                 nCalls, nAccepted, written, attempts, nConnErr, nWriteFault,
                 failed, nRequests, reArm, netCallLock, netCallLock>>

\* the handshake of the connecting socket succeeds
onConnectSuccess ==
  /\ loop = "running"
  /\ socket = "connecting"
  /\ socket' = "good"
  /\ connecting' = FALSE
  /\ IF pendingMessages # <<>>
     THEN lockAgain                       \* sendPendingMessages() locks again
     ELSE UNCHANGED <<loop, lockHolder>>
  /\ UNCHANGED <<pendingMessages, pendingBytes, closed, configVars, loopQueue,
                 timerScheduled, inflight, callerVars, cleanupPc, nCalls, nAccepted,
                 written, attempts, nConnErr, nWriteFault, failed,
                 nRequests, reArm, netCallLock>>

\* the handshake of the connecting socket fails
onConnectError ==
  /\ loop = "running"
  /\ socket = "connecting"
  /\ nFaults < MaxFaults
  /\ nConnErr' = nConnErr + 1
  /\ connecting' = FALSE
  /\ socket' = "null"
  /\ inflight' = <<>>
  /\ scheduleReconnect(timerScheduled)
  /\ UNCHANGED <<pendingMessages, pendingBytes, closed, configVars, loopQueue,
                 loop, lockHolder, callerVars, cleanupPc, nCalls, nAccepted, written,
                 attempts, nWriteFault, failed,
                 nRequests, netCallLock>>

\* removal of the first message that leaves pendingBytes as it was
popFront_KeepBytes ==
  IF pendingMessages # <<>>
  THEN /\ pendingBytes' = pendingBytes
       /\ pendingMessages' = Tail(pendingMessages)
  ELSE UNCHANGED <<pendingMessages, pendingBytes>>

\* onWriteSuccess: remove the first message from the pending queue
popFront ==
  IF pendingMessages # <<>>
  THEN /\ pendingBytes' = pendingBytes - Head(pendingMessages).size
       /\ pendingMessages' = Tail(pendingMessages)
  ELSE UNCHANGED <<pendingMessages, pendingBytes>>

\* the oldest write handed to the socket completes
onWriteSuccess ==
  /\ loop = "running"
  /\ socket = "good"
  /\ inflight # <<>>
  /\ written' = Append(written, Head(inflight))
  /\ inflight' = Tail(inflight)
  /\ popFront
  /\ failed' = (IF Head(inflight) = failed THEN 0 ELSE failed)
  /\ IF pendingMessages' # <<>> /\ socket # "null" /\ good(socket)
     THEN lockAgain                       \* sendPendingMessages() locks again
     ELSE UNCHANGED <<loop, lockHolder>>
  /\ UNCHANGED <<socket, connecting, closed, configVars, loopQueue,
                 timerScheduled, callerVars, cleanupPc, nCalls, nAccepted, attempts,
                 nConnErr, nWriteFault,
                 nRequests, reArm, netCallLock>>

\* the oldest write handed to the socket fails; the socket is still good
\* (a fault of this one write) or is not (the transport failed before)
onWriteError ==
  /\ loop = "running"
  /\ socket \in {"good", "bad"}
  /\ inflight # <<>>
  /\ failed' = (IF \E i \in 1..Len(pendingMessages) : pendingMessages[i].id = Head(inflight)
                THEN Head(inflight) ELSE failed)
  /\ IF socket # "null" /\ good(socket)
     THEN /\ nFaults < MaxFaults
          /\ nWriteFault' = nWriteFault + 1
          /\ inflight' = Tail(inflight)
          /\ lockAgain                    \* sendPendingMessages() locks again
          /\ UNCHANGED <<socket, timerScheduled, reArm>>
     ELSE /\ socket' = "null"
          /\ inflight' = <<>>
          /\ scheduleReconnect(timerScheduled)
          /\ UNCHANGED <<loop, lockHolder, nWriteFault>>
  /\ UNCHANGED <<pendingMessages, pendingBytes, connecting, closed, configVars,
                 loopQueue, callerVars, cleanupPc, nCalls, nAccepted, written, attempts,
                 nConnErr,
                 nRequests, netCallLock>>

\* onSocketClose() without socket.reset()
onSocketClose_KeepSocket ==
  /\ loop = "running"
  /\ socket = "bad"
  /\ scheduleReconnect(timerScheduled)
  /\ UNCHANGED <<socket, inflight, pendingMessages, pendingBytes, connecting,
                 closed, configVars, loopQueue, loop, lockHolder, callerVars,
                 cleanupPc, histVars, nRequests, netCallLock>>

\* the transport tells the writer that the connection was closed
onSocketClose ==
  /\ loop = "running"
  /\ socket = "bad"
  /\ socket' = "null"
  /\ inflight' = <<>>
  /\ scheduleReconnect(timerScheduled)
  /\ UNCHANGED <<pendingMessages, pendingBytes, connecting, closed, configVars,
                 loopQueue, loop, lockHolder, callerVars, cleanupPc, histVars,
                 nRequests, netCallLock>>

\* the connection is lost (the peer closes it, or the network fails)
transportFail ==
  /\ socket = "good"
  /\ nFaults < MaxFaults
  /\ nWriteFault' = nWriteFault + 1
  /\ socket' = "bad"
  /\ UNCHANGED <<pendingMessages, pendingBytes, connecting, closed, configVars,
                 loopQueue, loop, lockHolder, timerScheduled, inflight,
                 callerVars, cleanupPc, nCalls, nAccepted, written, attempts, nConnErr, failed,
                 nRequests, reArm, netCallLock>>

\* ------------------------------------------------------------- shutdown
\* cleanup() posts its callback and waits in join()
cleanupCall ==
  /\ cleanupPc = "none"
  /\ callerPc = "idle"
  /\ loopQueue' = Append(loopQueue, "cleanup")
  /\ cleanupPc' = "join"
  /\ UNCHANGED <<stateVars, configVars, loop, lockHolder, timerScheduled,
                 inflight, callerVars, histVars,
                 nRequests, reArm, netCallLock>>

\* the callback of cleanup() without cancelTimeout()
RunCleanup_KeepTimer ==
  /\ loop = "running"
  /\ loopQueue # <<>> /\ Head(loopQueue) = "cleanup"
  /\ loopQueue' = Tail(loopQueue)
  /\ loop' = "exited"
  /\ UNCHANGED <<stateVars, configVars, lockHolder, timerScheduled, inflight,
                 callerVars, cleanupPc, histVars, nRequests, reArm, netCallLock>>

\* the callback of cleanup: cancelTimeout(); terminateLoopSoon();
RunCleanup ==
  /\ loop = "running"
  /\ loopQueue # <<>> /\ Head(loopQueue) = "cleanup"
  /\ loopQueue' = Tail(loopQueue)
  /\ timerScheduled' = FALSE
  /\ loop' = "exited"
  /\ UNCHANGED <<stateVars, configVars, lockHolder, inflight, callerVars,
                 cleanupPc, histVars,
                 nRequests, reArm, netCallLock>>

\* the end of cleanup() without the join of the loop thread
cleanupJoin_NoJoin ==
  /\ cleanupPc = "join"
  /\ lockHolder = "none"
  /\ closed' = TRUE
  /\ socket' = "null"
  /\ inflight' = <<>>
  /\ cleanupPc' = "done"
  /\ UNCHANGED <<pendingMessages, pendingBytes, connecting, configVars,
                 loopQueue, loop, lockHolder, timerScheduled, callerVars,
                 histVars, nRequests, reArm, netCallLock>>

\* join() returns; cleanup() locks, sets closed and releases the socket
cleanupJoin ==
  /\ cleanupPc = "join"
  /\ loop = "exited"
  /\ lockHolder = "none"
  /\ closed' = TRUE
  /\ socket' = "null"
  /\ inflight' = <<>>
  /\ cleanupPc' = "done"
  /\ UNCHANGED <<pendingMessages, pendingBytes, connecting, configVars,
                 loopQueue, loop, lockHolder, timerScheduled, callerVars,
                 histVars,
                 nRequests, reArm, netCallLock>>

\* ------------------------------------------------------------- requests
\* connect() is requested once more on the loop thread, whatever the state
connectRequest ==
  /\ loop = "running"
  /\ nRequests < MaxRequests
  /\ nRequests' = nRequests + 1
  /\ connect(timerScheduled)
  /\ UNCHANGED <<pendingMessages, pendingBytes, closed, configVars, loopQueue,
                 loop, lockHolder, callerVars, cleanupPc, nCalls, nAccepted,
                 written, nConnErr, nWriteFault, failed>>

\* ------------------------------------------------------------- specification
Next ==
  \/ writeMessageCall
  \/ writeMessage
  \/ flush
  \/ RunConnect
  \/ RunSendPendingMessages
  \/ timeoutExpired
  \/ onConnectSuccess
  \/ onConnectError
  \/ onWriteSuccess
  \/ onWriteError
  \/ onSocketClose
  \/ transportFail
  \/ cleanupCall
  \/ RunCleanup
  \/ cleanupJoin

Spec == Init /\ [][Next]_vars

\* The event loop runs what is ready, the transport completes what it was
\* handed, a thread that can take a step takes it.
FairSpec ==
  /\ Spec
  /\ WF_vars(writeMessage)
  /\ WF_vars(RunConnect)
  /\ WF_vars(RunSendPendingMessages)
  /\ WF_vars(timeoutExpired)
  /\ WF_vars(onConnectSuccess \/ onConnectError)
  /\ WF_vars(onWriteSuccess \/ onWriteError \/ onSocketClose)
  /\ WF_vars(RunCleanup)
  /\ WF_vars(cleanupJoin)

\* The writer with further connect() requests at any time
RequestNext == Next \/ connectRequest

RequestSpec == Init /\ [][RequestNext]_vars

\* ------------------------------------------------------------- properties
SizesOf(q) == [i \in 1..Len(q) |-> q[i].size]

RECURSIVE SumSizes(_)
SumSizes(q) == IF q = <<>> THEN 0 ELSE Head(q).size + SumSizes(Tail(q))

RECURSIVE NormalBytes(_)
NormalBytes(q) ==
  IF q = <<>> THEN 0
  ELSE (IF Head(q).neverDiscard THEN 0 ELSE Head(q).size) + NormalBytes(Tail(q))

InSeq(x, q) == \E i \in 1..Len(q) : q[i] = x

\* a step in which writeMessage runs from the lock to its return
WriteMessageStep == callerPc = "writeMessage" /\ callerPc' = "idle"

\* C1: the writes the transport completed are the accepted messages, in the
\* order writeMessage enqueued them (the k-th completed write is the k-th
\* accepted message), none twice.
C1_OrderPreserved == \A i \in 1..Len(written) : written[i] = i

\* C2: the transport fails the first two connect attempts and the third
\* succeeds, three messages having been enqueued before; then, with no
\* further call, no transport fault and no shutdown, the three messages are
\* eventually all written, in order, each once.
C2_Scenario ==
  /\ nConnErr = 2 /\ nWriteFault = 0 /\ socket = "good"
  /\ nAccepted = 3 /\ Len(pendingMessages) = 3
  /\ nFlush = 0 /\ ~InSeq("sendPendingMessages", loopQueue)
  /\ written = <<>> /\ inflight = <<>>
  /\ callerPc = "idle" /\ cleanupPc = "none"

C2_AllDelivered ==
  C2_Scenario ~> \/ written = <<1, 2, 3>>
                 \/ nWriteFault > 0
                 \/ nCalls > 3 \/ nFlush > 0 \/ callerPc # "idle"
                 \/ cleanupPc # "none"

\* C3: a writeMessage without the never-discard flag whose buffer does not
\* fit (pendingBytes + size > maxBufferSize) changes neither the queue nor
\* pendingBytes and posts no send; one whose buffer fits is appended and
\* counted.  With maxBufferSize = 10 and a 6-byte message queued, 8 bytes
\* are dropped and 3 bytes then give the queue 6, 3 with pendingBytes = 9.
C3_DropWhenFull ==
  [][WriteMessageStep =>
       /\ \A sz \in MessageSizes :
            writeMessageBody(sz, FALSE) =>
              IF pendingBytes + sz > maxBufferSize_
              THEN UNCHANGED <<pendingMessages, pendingBytes, loopQueue>>
              ELSE /\ SizesOf(pendingMessages') = Append(SizesOf(pendingMessages), sz)
                   /\ pendingBytes' = pendingBytes + sz
       /\ (maxBufferSize_ = 10 /\ SizesOf(pendingMessages) = <<6>> /\ pendingBytes = 6) =>
            /\ writeMessageBody(8, FALSE) =>
                 SizesOf(pendingMessages') = <<6>> /\ pendingBytes' = 6
            /\ writeMessageBody(3, FALSE) =>
                 SizesOf(pendingMessages') = <<6, 3>> /\ pendingBytes' = 9
    ]_vars

\* three calls, one of them dropped, left the 6-byte and the 3-byte message
C3_Witness ==
  /\ maxBufferSize_ = 10
  /\ nCalls = 3 /\ nAccepted = 2
  /\ SizesOf(pendingMessages) = <<6, 3>>
  /\ pendingBytes = 9
  /\ \A i \in 1..2 : ~pendingMessages[i].neverDiscard

\* C4: pendingBytes is the sum of the sizes of the queued buffers.
C4_PendingBytesIsSum == pendingBytes = SumSizes(pendingMessages)

\* messages were enqueued, one was drained, others are still queued
C4_Witness == written # <<>> /\ Len(pendingMessages) >= 2 /\ pendingBytes > 0

C7_ShutdownTerminates == (cleanupPc = "join") ~> (cleanupPc = "done")

\* C8: a writeMessage call that was started gets the lock and returns.
C8_WriteMessageReturns == (callerPc = "writeMessage") ~> (callerPc = "idle")

\* C9: a connect failure schedules the reconnect timeout and issues no
\* connect attempt itself; connect attempts are issued only by the timeout
\* (and, before any failure, by the constructor's callback); an attempt
\* that throws (UDP) schedules the timeout as well; a scheduled timeout can
\* fire (the loop thread is running), and its firing issues exactly one
\* attempt.
C9_ReconnectOnlyByTimer ==
  /\ [](timerScheduled => ENABLED timeoutExpired)
  /\ [][/\ onConnectError => timerScheduled' /\ attempts' = attempts
        /\ attempts' # attempts =>
             timeoutExpired \/ (RunConnect /\ attempts = 0 /\ nConnErr = 0)
        /\ timeoutExpired => attempts' = (attempts + 1) % AttemptsMod
        /\ (attempts' # attempts /\ protocol_ = "UDP") =>
             timerScheduled' /\ ~connecting' /\ socket' = "null"
       ]_vars

\* after a connect failure the timeout fired and a new attempt is in flight
C9_Witness ==
  /\ nConnErr >= 1
  /\ socket = "connecting" /\ connecting
  /\ ~timerScheduled

\* C10: the message whose write failed stays at the head of the queue, the
\* failure changes neither the queue nor pendingBytes, and when the
\* connection is established again the handler hands that message to the
\* socket first.
C10_FailedMessageRetried ==
  /\ [](failed # 0 => pendingMessages # <<>> /\ Head(pendingMessages).id = failed)
  /\ [][/\ onWriteError => UNCHANGED <<pendingMessages, pendingBytes>>
        /\ (onConnectSuccess /\ failed # 0) =>
              loop' = "running" /\ inflight' = <<failed>>
       ]_vars

Usable == socket # "null" /\ good(socket)

\* C12: flush() only posts a send attempt and changes nothing else; a posted
\* send attempt never changes the queue, pendingBytes, the socket, connecting,
\* closed or the timeout, and when the socket is not usable or the queue is
\* empty it hands nothing to the transport.
C12_FlushBestEffort ==
  [][ /\ (flush =>
            /\ UNCHANGED <<stateVars, timerScheduled, inflight, written>>
            /\ loopQueue' = Append(loopQueue, "sendPendingMessages"))
      /\ (RunSendPendingMessages =>
            /\ UNCHANGED <<stateVars, timerScheduled, written>>
            /\ (~Usable \/ pendingMessages = <<>> => UNCHANGED inflight)) ]_vars

\* the send attempt posted by flush() has run on a writer whose socket was
\* never good, with messages queued
C12_Witness ==
  /\ nFlush = 1
  /\ loopQueue = <<>>
  /\ cleanupPc = "none"
  /\ nWriteFault = 0
  /\ socket # "good"
  /\ pendingMessages # <<>>
  /\ written = <<>> /\ inflight = <<>>

\* C13: at most one write is outstanding at the transport, and it is a write
\* of the message at the head of the queue, so that no message is handed to
\* the transport again while its write is in flight.
C13_WritesSerialized ==
  /\ Len(inflight) <= 1
  /\ (inflight # <<>> =>
        pendingMessages # <<>> /\ Head(inflight) = Head(pendingMessages).id)

\* C14: a successful write removes the head of the queue and its bytes, and
\* when messages remain and the socket is usable the handler itself hands the
\* new head to the transport and returns.
C14_SuccessSendsNext ==
  [][ onWriteSuccess /\ pendingMessages # <<>> =>
        /\ pendingMessages' = Tail(pendingMessages)
        /\ pendingBytes' = pendingBytes - Head(pendingMessages).size
        /\ (pendingMessages' # <<>> /\ Usable =>
              /\ loop' = "running"
              /\ InSeq(Head(pendingMessages').id, inflight')) ]_vars

\* C15: a message leaves the queue only when a write of that message has
\* completed successfully: every accepted message is queued or was written.
C15_RemovedOnlyWhenWritten ==
  \A id \in 1..nAccepted :
    \/ \E i \in 1..Len(pendingMessages) : pendingMessages[i].id = id
    \/ InSeq(id, written)

\* C16: connecting is never true while a usable socket exists.
C16_ConnectingExcludesUsable == ~(connecting /\ Usable)

\* a connection established by a reconnect: the socket is usable and
\* connecting has been cleared
C16_Witness == Usable /\ ~connecting /\ nConnErr >= 1 /\ attempts = 2

\* C17: connect() called while a connect is under way or a usable socket
\* exists makes no socket, starts no attempt and leaves socket, connecting,
\* the queue, pendingBytes, the timeout and the transport as they are; an
\* attempt starts only when none is under way and no socket is usable.
C17_ConnectIdempotent ==
  [][ /\ ((connectRequest \/ RunConnect \/ timeoutExpired)
            /\ (connecting \/ Usable) =>
              UNCHANGED <<socket, connecting, pendingMessages, pendingBytes,
                          inflight, attempts, reArm>>)
      /\ ((connectRequest \/ RunConnect) /\ (connecting \/ Usable) =>
              UNCHANGED timerScheduled)
      /\ (attempts' # attempts => ~connecting /\ ~Usable) ]_vars

\* connect() has been called twice (by the constructor's callback and by a
\* further request) and one attempt is under way
C17_Witness ==
  /\ nRequests = 1
  /\ ~InSeq("connect", loopQueue)
  /\ connecting /\ socket = "connecting"
  /\ attempts = 1
  /\ nConnErr = 0 /\ nWriteFault = 0

\* C18: while the reconnect timeout is scheduled there is no socket handle and
\* no connect under way; a write failure on a transport that is no longer
\* good and a close notification clear the handle and schedule the timeout;
\* an established socket is never followed directly by a connecting one, and
\* after a loss the next attempt is made by the timeout.
C18_LossSchedulesReconnect ==
  /\ [](timerScheduled => socket = "null" /\ ~connecting)
  /\ [][ /\ ((onWriteError /\ ~Usable) \/ onSocketClose =>
                socket' = "null" /\ timerScheduled' /\ ~connecting')
          /\ (socket \in {"good", "bad"} =>
                socket' # "connecting" /\ ~connecting')
          /\ (attempts' # attempts /\ nFaults > 0 => timeoutExpired) ]_vars

\* an established connection was lost and the timeout is scheduled
C18_Witness ==
  /\ timerScheduled
  /\ socket = "null"
  /\ nWriteFault >= 1 /\ nConnErr = 0
  /\ pendingMessages # <<>>

\* C19: scheduleReconnect() called while the timeout is scheduled leaves the
\* timeout as it is: its deadline is never set anew, and the call changes
\* neither the queue nor pendingBytes.
C19_ScheduleIdempotent ==
  /\ [](reArm # "reset")
  /\ [][ reArm' # reArm =>
            /\ timerScheduled /\ timerScheduled'
            /\ UNCHANGED <<pendingMessages, pendingBytes>> ]_vars

\* scheduleReconnect() was called while the timeout was scheduled
C19_Witness == reArm = "ignored" /\ timerScheduled /\ socket = "null"

\* C20: once closed is true it stays true, and from then on no step changes
\* the socket, connecting, the queue, pendingBytes, the timeout or the
\* transport: there is no socket, no scheduled timeout and nothing in flight.
C20_ClosedIsInert ==
  /\ [](closed => socket = "null" /\ ~timerScheduled /\ inflight = <<>>)
  /\ [][ closed =>
            /\ closed'
            /\ UNCHANGED <<socket, connecting, pendingMessages, pendingBytes,
                           timerScheduled, inflight, written, attempts,
                           loopQueue, loop>> ]_vars

\* a writer that was waiting to reconnect, with messages queued, is closed
C20_Witness ==
  /\ closed
  /\ pendingMessages # <<>>
  /\ nConnErr >= 1
  /\ attempts = 1

\* C21: cleanup() works in a fixed order: the loop thread exits only in the
\* callback that cancels the timeout, posted by cleanup() and run before
\* closed is set; closed is set only by the step that follows the join, when
\* the loop thread has exited and the timeout is not scheduled; once cleanup()
\* has returned the timeout is not scheduled, the loop thread has exited,
\* closed is true, the socket is null and nothing more is written.
C21_ShutdownOrder ==
  /\ [](cleanupPc = "done" =>
          ~timerScheduled /\ loop = "exited" /\ closed /\ socket = "null")
  /\ [][ /\ (loop' = "exited" /\ loop # "exited" =>
                /\ RunCleanup
                /\ cleanupPc = "join" /\ ~closed /\ ~closed'
                /\ ~timerScheduled')
          /\ (closed' /\ ~closed =>
                /\ cleanupJoin
                /\ loop = "exited" /\ ~timerScheduled
                /\ socket' = "null" /\ cleanupPc' = "done")
          /\ (cleanupPc = "done" => UNCHANGED <<written, inflight>>) ]_vars

\* cleanup() has returned on a writer that had written a message and still
\* holds unsent ones
C21_Witness ==
  /\ cleanupPc = "done"
  /\ written # <<>>
  /\ Len(pendingMessages) >= 2

\* C22: the loop thread never asks for the lock of connectionState_ while it
\* holds it, so it never blocks on itself.
C22_NoRelock == ~(loop = "blocked" /\ lockHolder = "loop")

\* C23: no socket connect and no socket write is issued while the issuing
\* thread holds the lock of connectionState_.
C23_NoNetworkCallUnderLock == netCallLock = "none"

====
